---- MODULE Spec2Model ----
(***************************************************************************)
(* CFPSLimiter (src/src/FPSLimiter.h): the frame-pacing scheduler of       *)
(* gamescope.  Three execution contexts use one scheduler object:          *)
(*   "app"    submits frames (MarkFrame) and may call the public           *)
(*            ArmNextFrame and CalcNextWakeupTime directly,                *)
(*   "timer"  is the event loop calling OnPollIn,                          *)
(*   "wsi"    is the swapchain-feedback path calling SetTotalBuffers and   *)
(*            the public ReleaseOldestBuffer.                              *)
(* A step of the model is one critical section of the code (the code       *)
(* between taking a mutex and releasing it) or one atomic store; the       *)
(* schedule mutex, which OnPollIn holds across its calls and ArmNextFrame  *)
(* from the write of the cached schedule to the call of ArmTimer, is a     *)
(* variable.                                                               *)
(***************************************************************************)
EXTENDS Integers, Sequences, FiniteSets, TLC

(***************************************************************************)
(* uint64_t.  TLC's integers are 32 bits wide, so a uint64_t is four       *)
(* 16-bit limbs, least significant first, and + and - wrap modulo 2^64 as  *)
(* the C++ operators do.                                                   *)
(***************************************************************************)
Base == 256 * 256

Limbs == 1..4

\* The uint64_t with value n, for 0 <= n < 2^31.
U64(n) == <<n % Base, (n \div Base) % Base, 0, 0>>

\* 2^64 - 1 - n for 0 <= n < 2^31: a value close to the top of the range.
U64Top(n) == <<(Base - 1) - (n % Base), (Base - 1) - ((n \div Base) % Base), Base - 1, Base - 1>>

\* a + b modulo 2^64.
AddU64(a, b) ==
    LET s1 == a[1] + b[1]
        s2 == a[2] + b[2] + (s1 \div Base)
        s3 == a[3] + b[3] + (s2 \div Base)
        s4 == a[4] + b[4] + (s3 \div Base)
    IN  <<s1 % Base, s2 % Base, s3 % Base, s4 % Base>>

\* a - b modulo 2^64.
SubU64(a, b) ==
    LET d1 == a[1] - b[1]
        w1 == IF d1 < 0 THEN 1 ELSE 0
        d2 == a[2] - b[2] - w1
        w2 == IF d2 < 0 THEN 1 ELSE 0
        d3 == a[3] - b[3] - w2
        w3 == IF d3 < 0 THEN 1 ELSE 0
        d4 == a[4] - b[4] - w3
        w4 == IF d4 < 0 THEN 1 ELSE 0
    IN  <<d1 + w1 * Base, d2 + w2 * Base, d3 + w3 * Base, d4 + w4 * Base>>

\* a > b, unsigned.
GtU64(a, b) ==
    \E i \in Limbs : a[i] > b[i] /\ \A j \in Limbs : j > i => a[j] = b[j]

\* a <= b, unsigned.
LeU64(a, b) == ~GtU64(a, b)

ZeroU64 == U64(0)


(***************************************************************************)
(* Bounds of the model and the inputs the operations are called with.      *)
(***************************************************************************)
\* HoldBuffer calls between two clearings of the queue.
MaxSubmits == 3

\* ITimerWaitable::ArmTimer calls in one behaviour.
MaxArms == 2

\* Advances of the clock read by get_time_in_nanos.
MaxTicks == 1

Contexts == {"app", "timer", "wsi"}

NoOwner == "none"

Textures == {"texA"}

NoTexture == "null"

\* SetTotalBuffers arguments.
TotalBufferInputs == {1, 2}

\* MarkFrame's ulCPUTimestampNanos and ulGPUTimestampNanos arguments.
CPUStampInputs == {U64(15000000)}

GPUStampInputs == {U64(15900000)}

\* The clock at construction and the step of one advance.
ClockStart == U64(16000000)

ClockStep == U64(500000)

\* The schedule the vblank timer holds: the next refresh and its latch time.
VBlankStart ==
    [ ulTargetVBlank         |-> U64(18000000),
      ulScheduledWakeupPoint |-> U64(16666666) ]

\* Inputs of the wake-up arithmetic alone (SpecCalc).
LatchInputs == {U64(16666666), U64(1000000), U64Top(0)}

LastGPUInputs == {ZeroU64, U64(5000000), U64(3000000)}

LastReleaseInputs == {ZeroU64, U64(3000000), U64(5000000)}

NowInputs ==
    { ZeroU64, U64(14000000), U64(14166665), U64(14166666), U64(14500000),
      U64(14666165), U64(15000000), U64(17000000), U64Top(500000), U64Top(600000),
      U64Top(100) }

VARIABLES
    pc,                     \* where each context is in the method it is running
    frame,                  \* the arguments and locals of that method
    m_bArmed,
    m_uTotalBuffers,
    m_uAcquiredBuffers,
    m_pHeldBuffers,         \* the held Rc<CVulkanTexture>, oldest first
    m_ScheduleMutex,        \* the context owning the mutex, or NoOwner
    m_TimerFDSchedule,
    m_ulLastGPUTimestamp,
    m_ulLastRelease,
    m_BufferTimestamp,      \* each texture's m_BufferTimestamp: the record line 49
                            \* reads and line 180 assigns
    m_oBufferTimestamp,     \* each texture's m_oBufferTimestamp: the record lines
                            \* 55-60 write
    ulNow,                  \* what get_time_in_nanos returns
    nTicks,
    vblank,                 \* the schedule GetVBlankTimer() holds
    timerDeadline,          \* the deadline last given to ArmTimer
    nArmTimer,              \* the number of ArmTimer calls so far
    bTimerPending,          \* a deadline is registered and its wake-up not yet delivered
    nHeld,                  \* HoldBuffer calls since the queue was last cleared
    lastReleased,           \* the number of the call whose buffer ReleaseOldestBuffer
                            \* released last, since the queue was last cleared
    lastReturn              \* the call that returned last and what it returned, if no
                            \* context has taken a step since

vars ==
    << pc, frame, m_bArmed, m_uTotalBuffers, m_uAcquiredBuffers, m_pHeldBuffers,
       m_ScheduleMutex, m_TimerFDSchedule, m_ulLastGPUTimestamp, m_ulLastRelease,
       m_BufferTimestamp, m_oBufferTimestamp, ulNow, nTicks, vblank, timerDeadline,
       nArmTimer,
       bTimerPending, nHeld, lastReleased, lastReturn >>

\* The hold queue with its counter, the schedule state, the timer registration.
queueVars == <<m_pHeldBuffers, m_uAcquiredBuffers, nHeld, lastReleased>>

scheduleVars == <<m_bArmed, m_TimerFDSchedule>>

timerVars == <<timerDeadline, nArmTimer, bTimerPending>>

envVars == <<ulNow, nTicks, vblank>>

lastVars == <<m_ulLastGPUTimestamp, m_ulLastRelease>>

textureVars == <<m_BufferTimestamp, m_oBufferTimestamp>>

NoFrame ==
    [ pTexture |-> NoTexture, bReArmTimer |-> FALSE, bPreemptive |-> FALSE,
      ulDelta |-> ZeroU64, uReleased |-> 0, nArmAtFire |-> 0, uTotalBuffers |-> 0,
      bWasArmed |-> FALSE ]

\* FPSLimitScheduleTime_t{}: every member 0.
ZeroSchedule ==
    [ ulTargetVBlank |-> ZeroU64, ulTargetLatch |-> ZeroU64,
      ulScheduledWakeupPoint |-> ZeroU64 ]

NoPrev == [made |-> FALSE, ret |-> ZeroSchedule, now |-> ZeroU64]

NoReturn ==
    [ op |-> "none", early |-> FALSE, ret |-> ZeroSchedule, now |-> ZeroU64,
      prev |-> NoPrev, bWasArmed |-> FALSE, uReturned |-> 0 ]

\* The record of a return: the method and whether it took its early return.  For
\* a call that went through ArmNextFrame's lines 109-113, bWasArmed is the value
\* m_bArmed had when line 109 set it.  For ReleaseAllBuffers and
\* ReleaseOldestBuffer, uReturned is the uint32_t returned.  For
\* CalcNextWakeupTime the record also holds the value returned and the clock the
\* call read, and the same of the CalcNextWakeupTime call that returned before it
\* if no context took a step between the two.
Returned(op, early) == [NoReturn EXCEPT !.op = op, !.early = early]

ZeroTimestamp ==
    [ ulCPUTime |-> ZeroU64, ulGPUTime |-> ZeroU64, ulReleaseTime |-> ZeroU64 ]

\* The state of the object after construction, lines 188-204.  The source reads
\* m_ulLastGPUTimestamp and m_ulLastRelease (line 80) and neither declares nor
\* writes them: they keep the values given here, 0 in Init and drawn in InitCalc.
Constructed(ulLastGPU, ulLastRelease, now, schedule) ==
    /\ pc = [c \in Contexts |-> "idle"]
    /\ frame = [c \in Contexts |-> NoFrame]
    /\ m_bArmed = FALSE
    /\ m_uTotalBuffers = 1
    /\ m_uAcquiredBuffers = 1
    /\ m_pHeldBuffers = <<>>
    /\ m_ScheduleMutex = NoOwner
    /\ m_TimerFDSchedule = ZeroSchedule
    /\ m_ulLastGPUTimestamp = ulLastGPU
    /\ m_ulLastRelease = ulLastRelease
    /\ m_BufferTimestamp = [t \in Textures |-> ZeroTimestamp]
    /\ m_oBufferTimestamp = [t \in Textures |-> ZeroTimestamp]
    /\ ulNow = now
    /\ nTicks = 0
    /\ vblank = schedule
    /\ timerDeadline = ZeroU64
    /\ nArmTimer = 0
    /\ bTimerPending = FALSE
    /\ nHeld = 0
    /\ lastReleased = 0
    /\ lastReturn = NoReturn

Init == Constructed(ZeroU64, ZeroU64, ClockStart, VBlankStart)

(***************************************************************************)
(* CalcNextWakeupTime.                                                     *)
(***************************************************************************)
Slop == 500000

\* GetVBlankTimer().CalcNextWakeupTime( true ): a peek, the timer's schedule as it is.
VBlankCalcNextWakeupTime(bPreemptive) == vblank

get_time_in_nanos == ulNow

\* Line 77 passing false: the vblank timer commits and moves on to the next refresh.
VBlankTimerCommitted ==
    vblank' = [ ulTargetVBlank |-> AddU64(vblank.ulTargetVBlank, U64(16666666)),
                ulScheduledWakeupPoint |->
                    AddU64(vblank.ulScheduledWakeupPoint, U64(16666666)) ]

\* What the call of line 77 does to the vblank timer: called with true, nothing.
VBlankTimerPeeked == UNCHANGED vblank

\* Lines 89-90 left out: the candidate is returned whatever the clock.
WakeupPointUnclamped(ulLatch, ulLastGPU, ulLastRelease, now) ==
    SubU64(ulLatch, SubU64(ulLastGPU, ulLastRelease))

\* Line 89 with the operands of > exchanged.
WakeupPointComparedBackwards(ulLatch, ulLastGPU, ulLastRelease, now) ==
    LET ulDelta == SubU64(ulLastGPU, ulLastRelease)
        ulNextReleaseTime == SubU64(ulLatch, ulDelta)
        ulSloppyNow == AddU64(now, U64(Slop))
    IN  IF GtU64(ulSloppyNow, ulNextReleaseTime) THEN now ELSE ulNextReleaseTime

\* The wake-up point from the latch time, the two last timestamps and the clock.
ScheduledWakeupPoint(ulLatch, ulLastGPU, ulLastRelease, now) ==
    LET ulDelta == SubU64(ulLastGPU, ulLastRelease)
        ulNextReleaseTime == SubU64(ulLatch, ulDelta)
        ulSloppyNow == AddU64(now, U64(Slop))
    IN  IF GtU64(ulNextReleaseTime, ulSloppyNow) THEN now ELSE ulNextReleaseTime

CalcNextWakeupTime(bPreemptive) ==
    LET nextVBlankSchedule == VBlankCalcNextWakeupTime(TRUE)
    IN  [ ulTargetVBlank |-> nextVBlankSchedule.ulTargetVBlank,
          ulTargetLatch  |-> nextVBlankSchedule.ulScheduledWakeupPoint,
          ulScheduledWakeupPoint |->
              ScheduledWakeupPoint(nextVBlankSchedule.ulScheduledWakeupPoint,
                                   m_ulLastGPUTimestamp, m_ulLastRelease,
                                   get_time_in_nanos) ]

(***************************************************************************)
(* The hold queue: HoldBuffer, ReleaseAllBuffers, ReleaseOldestBuffer.     *)
(* Each runs under m_mutHeldBuffers from its first line to its last, so    *)
(* each is one step.  An entry of the queue is the texture handle with the *)
(* number of the HoldBuffer call that pushed it, counted from the last     *)
(* clearing of the queue, and whether that call took the warning branch.   *)
(* m_uAcquiredBuffers is a uint32_t; the model keeps it below              *)
(* MaxSubmits + 2, and it is decremented only with a buffer held.          *)
(***************************************************************************)
\* The comparison of line 155 with >= for >.
AtLeastAcquired(uNewTotalAcquiredBuffers, uTotalBuffers) ==
    uNewTotalAcquiredBuffers >= uTotalBuffers

\* uNewTotalAcquiredBuffers > m_uTotalBuffers
OverAcquired(uNewTotalAcquiredBuffers, uTotalBuffers) ==
    uNewTotalAcquiredBuffers > uTotalBuffers

\* m_pHeldBuffers.push_back
PushBack(q, e) == Append(q, e)

HoldBuffer(pTexture) ==
    LET uNewTotalAcquiredBuffers == m_uAcquiredBuffers + 1
    IN  /\ m_pHeldBuffers' =
               PushBack(m_pHeldBuffers,
                        [ pTexture |-> pTexture, seq |-> nHeld + 1,
                          warned |-> OverAcquired(uNewTotalAcquiredBuffers, m_uTotalBuffers) ])
        /\ m_uAcquiredBuffers' = uNewTotalAcquiredBuffers
        /\ nHeld' = nHeld + 1
        /\ UNCHANGED lastReleased

\* ReleaseAllBuffers without line 167: the counter keeps its value.
KeptCount == m_uAcquiredBuffers

\* What ReleaseAllBuffers leaves in m_uAcquiredBuffers.
ClearedCount == 0

ReleaseAllBuffers ==
    /\ m_pHeldBuffers' = <<>>
    /\ m_uAcquiredBuffers' = ClearedCount
    /\ nHeld' = 0
    /\ lastReleased' = 0

\* ReleaseOldestBuffer taking the back of the vector instead of its front.
NewestPlace(q) == Len(q)

\* The place in the queue of the buffer ReleaseOldestBuffer stamps and erases:
\* m_pHeldBuffers[0], m_pHeldBuffers.begin().
OldestPlace(q) == 1

EraseAt(q, i) == SubSeq(q, 1, i - 1) \o SubSeq(q, i + 1, Len(q))

\* The released buffer's timestamp record: its release time becomes the clock's.
StampRelease(ts, now) == [ts EXCEPT !.ulReleaseTime = now]

\* The value ReleaseOldestBuffer returns.
ReleaseOldestBufferResult ==
    IF m_pHeldBuffers = <<>> THEN 0 ELSE m_uAcquiredBuffers

ReleaseOldestBuffer ==
    IF m_pHeldBuffers = <<>>
    THEN UNCHANGED <<queueVars, textureVars>>
    ELSE LET i == OldestPlace(m_pHeldBuffers)
             pTexture == m_pHeldBuffers[i].pTexture
         IN  /\ m_BufferTimestamp' =
                    [m_BufferTimestamp EXCEPT
                        ![pTexture] = StampRelease(@, get_time_in_nanos)]
             /\ m_pHeldBuffers' = EraseAt(m_pHeldBuffers, i)
             /\ m_uAcquiredBuffers' = m_uAcquiredBuffers - 1
             /\ lastReleased' = m_pHeldBuffers[i].seq
             /\ UNCHANGED <<nHeld, m_oBufferTimestamp>>

(***************************************************************************)
(* Steps of the contexts.                                                  *)
(***************************************************************************)
Goto(c, label) == pc' = [pc EXCEPT ![c] = label]

\* Lines 55-60 writing 0 for the release time instead of the value read at line 49.
TimestampWithoutRelease(ulCPUTimestampNanos, ulGPUTimestampNanos, ulReleaseTime) ==
    [ ulCPUTime     |-> ulCPUTimestampNanos,
      ulGPUTime     |-> ulGPUTimestampNanos,
      ulReleaseTime |-> ZeroU64 ]

\* The record MarkFrame writes to the texture, lines 55-60.
MarkedTimestamp(ulCPUTimestampNanos, ulGPUTimestampNanos, ulReleaseTime) ==
    [ ulCPUTime     |-> ulCPUTimestampNanos,
      ulGPUTime     |-> ulGPUTimestampNanos,
      ulReleaseTime |-> ulReleaseTime ]

\* MarkFrame, lines 44-61, under the texture's mutex: the release time is read
\* from the texture's m_BufferTimestamp and the new record is written to its
\* m_oBufferTimestamp.
MarkFrame(pTexture, ulCPUTimestampNanos, ulGPUTimestampNanos, bReArmTimer) ==
    /\ pc["app"] = "idle"
    /\ nHeld < MaxSubmits
    /\ bReArmTimer => nArmTimer < MaxArms
    /\ LET ulReleaseTime == m_BufferTimestamp[pTexture].ulReleaseTime
           ulDelta == IF ulReleaseTime # ZeroU64
                      THEN SubU64(ulGPUTimestampNanos, ZeroU64)
                      ELSE ZeroU64
       IN  /\ m_oBufferTimestamp' =
                  [m_oBufferTimestamp EXCEPT
                      ![pTexture] = MarkedTimestamp(ulCPUTimestampNanos,
                                                    ulGPUTimestampNanos, ulReleaseTime)]
           /\ frame' = [frame EXCEPT
                  !["app"] = [NoFrame EXCEPT !.pTexture = pTexture,
                                             !.bReArmTimer = bReArmTimer,
                                             !.ulDelta = ulDelta]]
    /\ Goto("app", "mf_hold")
    /\ lastReturn' = NoReturn
    /\ UNCHANGED <<queueVars, scheduleVars, timerVars, envVars, lastVars,
                   m_uTotalBuffers, m_ScheduleMutex, m_BufferTimestamp>>

\* MarkFrame, lines 63-69: HoldBuffer, then ArmNextFrame( false ) or the return.
MarkFrameHold ==
    /\ pc["app"] = "mf_hold"
    /\ HoldBuffer(frame["app"].pTexture)
    /\ IF frame["app"].bReArmTimer
       THEN /\ Goto("app", "arm_lock")
            /\ frame' = [frame EXCEPT !["app"].bPreemptive = FALSE]
       ELSE /\ Goto("app", "idle")
            /\ frame' = [frame EXCEPT !["app"] = NoFrame]
    /\ lastReturn' = IF frame["app"].bReArmTimer THEN NoReturn ELSE Returned("MarkFrame", FALSE)
    /\ UNCHANGED <<scheduleVars, timerVars, envVars, lastVars, m_uTotalBuffers,
                   m_ScheduleMutex, textureVars>>

\* A call of the public ArmNextFrame.
ArmNextFrameCall(bPreemptive) ==
    /\ pc["app"] = "idle"
    /\ nArmTimer < MaxArms
    /\ Goto("app", "arm_lock")
    /\ frame' = [frame EXCEPT !["app"] = [NoFrame EXCEPT !.bPreemptive = bPreemptive]]
    /\ lastReturn' = NoReturn
    /\ UNCHANGED <<queueVars, scheduleVars, timerVars, envVars, lastVars,
                   m_uTotalBuffers, m_ScheduleMutex, textureVars>>

\* ArmNextFrame without lines 106-107.
NeverSkipArm(bPreemptive, bArmed) == FALSE

\* Lines 106-107 without the test of bPreemptive.
SkipWhenArmed(bPreemptive, bArmed) == bArmed

\* bPreemptive && m_bArmed
SkipArm(bPreemptive, bArmed) == bPreemptive /\ bArmed

\* ITimerWaitable::ArmTimer: the single-shot timer is set to the deadline, in place
\* of the deadline it held if it held one.
ArmTimer(ulDeadline) ==
    /\ timerDeadline' = ulDeadline
    /\ nArmTimer' = nArmTimer + 1
    /\ bTimerPending' = TRUE

\* The unique_lock of line 102 released before line 113 instead of at the return.
UnlockedBeforeArmTimer(c) == NoOwner

\* The owner of m_ScheduleMutex between line 112 and line 113: the lock of line 102
\* lives to the end of the method.
LockedThroughArmTimer(c) == c

\* ArmNextFrame, lines 102-112, by a context that does not own the mutex: it waits
\* for the mutex, and returns early or sets the flag and caches the new schedule.
ArmNextFrame(c) ==
    /\ pc[c] = "arm_lock"
    /\ m_ScheduleMutex = NoOwner
    /\ IF SkipArm(frame[c].bPreemptive, m_bArmed)
       THEN /\ Goto(c, "idle")
            /\ frame' = [frame EXCEPT ![c] = NoFrame]
            /\ lastReturn' = IF frame[c].pTexture # NoTexture
                             THEN Returned("MarkFrame", FALSE)
                             ELSE Returned("ArmNextFrame", TRUE)
            /\ UNCHANGED <<scheduleVars, vblank, m_ScheduleMutex>>
       ELSE /\ m_bArmed' = TRUE
            /\ m_TimerFDSchedule' = CalcNextWakeupTime(frame[c].bPreemptive)
            /\ VBlankTimerPeeked
            /\ m_ScheduleMutex' = LockedThroughArmTimer(c)
            /\ Goto(c, "arm_timer")
            /\ lastReturn' = NoReturn
            /\ frame' = [frame EXCEPT ![c].bWasArmed = m_bArmed]
    /\ UNCHANGED <<queueVars, timerVars, ulNow, nTicks, lastVars, m_uTotalBuffers,
                   textureVars>>

\* ArmNextFrame, lines 113-114: ArmTimer with the cached wake-up point, and the
\* return, which unlocks the mutex.
ArmNextFrameArmTimer(c) ==
    /\ pc[c] = "arm_timer"
    /\ ArmTimer(m_TimerFDSchedule.ulScheduledWakeupPoint)
    /\ m_ScheduleMutex' = NoOwner
    /\ Goto(c, "idle")
    /\ frame' = [frame EXCEPT ![c] = NoFrame]
    /\ lastReturn' =
           [ Returned(IF frame[c].pTexture # NoTexture THEN "MarkFrame" ELSE "ArmNextFrame",
                      FALSE)
             EXCEPT !.bWasArmed = frame[c].bWasArmed ]
    /\ UNCHANGED <<queueVars, scheduleVars, envVars, lastVars, m_uTotalBuffers,
                   textureVars>>

\* ArmNextFrame, line 102, by the context that owns the mutex (OnPollIn, line 128):
\* locking a std::mutex the thread already owns is undefined.  One outcome: the
\* thread blocks on its own mutex for ever.
ArmNextFrameRelockBlocks(c) ==
    /\ pc[c] = "arm_lock"
    /\ m_ScheduleMutex = c
    /\ Goto(c, "relock_blocked")
    /\ lastReturn' = NoReturn
    /\ UNCHANGED <<frame, queueVars, scheduleVars, timerVars, envVars, lastVars,
                   m_uTotalBuffers, m_ScheduleMutex, textureVars>>

\* The other outcome: lock() throws std::system_error (resource_deadlock_would_occur);
\* the exception leaves OnPollIn, whose unique_lock unlocks the mutex on the way.
ArmNextFrameRelockThrows(c) ==
    /\ pc[c] = "arm_lock"
    /\ m_ScheduleMutex = c
    /\ m_ScheduleMutex' = NoOwner
    /\ Goto(c, "idle")
    /\ frame' = [frame EXCEPT ![c] = NoFrame]
    /\ lastReturn' = NoReturn
    /\ UNCHANGED <<queueVars, scheduleVars, timerVars, envVars, lastVars,
                   m_uTotalBuffers, textureVars>>

\* A call of the public CalcNextWakeupTime.  The call takes no lock and writes
\* nothing, and of what it reads only the clock changes, which it reads once
\* (line 83): the call is one step, taken when it reads the clock.
CalcNextWakeupTimeCall(bPreemptive) ==
    /\ pc["app"] = "idle"
    /\ lastReturn' = [ op    |-> "CalcNextWakeupTime",
                       early |-> FALSE,
                       ret   |-> CalcNextWakeupTime(bPreemptive),
                       now   |-> get_time_in_nanos,
                       prev  |-> IF lastReturn.op = "CalcNextWakeupTime"
                                 THEN [ made |-> TRUE, ret |-> lastReturn.ret,
                                        now |-> lastReturn.now ]
                                 ELSE NoPrev,
                       bWasArmed |-> FALSE,
                       uReturned |-> 0 ]
    /\ VBlankTimerPeeked
    /\ UNCHANGED <<pc, frame, queueVars, scheduleVars, timerVars, ulNow, nTicks, lastVars,
                   m_uTotalBuffers, m_ScheduleMutex, textureVars>>

\* The event loop calls OnPollIn: for the registered deadline, which is then no
\* longer pending, or for a stale or duplicate wake-up when none is.
OnPollInCall ==
    /\ pc["timer"] = "idle"
    /\ Goto("timer", "poll_lock")
    /\ bTimerPending' = FALSE
    /\ lastReturn' = NoReturn
    /\ UNCHANGED <<frame, queueVars, scheduleVars, timerDeadline, nArmTimer, envVars,
                   lastVars, m_uTotalBuffers, m_ScheduleMutex, textureVars>>

\* OnPollIn without lines 121-122.
NeverReturnsEarly(bWasArmed) == FALSE

\* !m_bArmed.exchange( false ), given what the exchange returned.
ReturnsEarly(bWasArmed) == ~bWasArmed

\* OnPollIn, lines 118-122: the mutex, the exchange, the early return.
OnPollIn ==
    /\ pc["timer"] = "poll_lock"
    /\ m_ScheduleMutex = NoOwner
    /\ m_bArmed' = FALSE
    /\ IF ReturnsEarly(m_bArmed)
       THEN /\ Goto("timer", "idle")
            /\ lastReturn' = Returned("OnPollIn", TRUE)
            /\ UNCHANGED <<frame, m_ScheduleMutex>>
       ELSE /\ Goto("timer", "poll_release")
            /\ m_ScheduleMutex' = "timer"
            /\ frame' = [frame EXCEPT !["timer"] = [NoFrame EXCEPT !.nArmAtFire = nArmTimer]]
            /\ lastReturn' = NoReturn
    /\ UNCHANGED <<queueVars, m_TimerFDSchedule, timerVars, envVars, lastVars,
                   m_uTotalBuffers, textureVars>>

\* OnPollIn, lines 124-128: ReleaseOldestBuffer, then the call ArmNextFrame( true ).
OnPollInRelease ==
    /\ pc["timer"] = "poll_release"
    /\ ReleaseOldestBuffer
    /\ frame' = [frame EXCEPT !["timer"].uReleased = ReleaseOldestBufferResult,
                              !["timer"].bPreemptive = TRUE]
    /\ Goto("timer", "arm_lock")
    /\ lastReturn' = NoReturn
    /\ UNCHANGED <<scheduleVars, timerVars, envVars, lastVars, m_uTotalBuffers,
                   m_ScheduleMutex>>

\* SetTotalBuffers, line 134: the store.
SetTotalBuffers(uTotalBuffers) ==
    /\ pc["wsi"] = "idle"
    /\ m_uTotalBuffers' = uTotalBuffers
    /\ Goto("wsi", "set_release")
    /\ frame' = [frame EXCEPT !["wsi"] = [NoFrame EXCEPT !.uTotalBuffers = uTotalBuffers]]
    /\ lastReturn' = NoReturn
    /\ UNCHANGED <<queueVars, scheduleVars, timerVars, envVars, lastVars,
                   m_ScheduleMutex, textureVars>>

\* SetTotalBuffers disarming the limiter along with dropping the buffers.
ScheduleDisarmed ==
    /\ m_bArmed' = FALSE
    /\ UNCHANGED <<m_TimerFDSchedule, timerVars>>

\* What SetTotalBuffers and its ReleaseAllBuffers do to m_bArmed, the cached
\* schedule and the timer: neither method names any of them.
ScheduleUntouched == UNCHANGED <<scheduleVars, timerVars>>

\* SetTotalBuffers, line 138: ReleaseAllBuffers, and the return.
SetTotalBuffersRelease ==
    /\ pc["wsi"] = "set_release"
    /\ ReleaseAllBuffers
    /\ ScheduleUntouched
    /\ Goto("wsi", "idle")
    /\ frame' = [frame EXCEPT !["wsi"] = NoFrame]
    /\ lastReturn' = Returned("SetTotalBuffers", FALSE)
    /\ UNCHANGED <<envVars, lastVars, m_uTotalBuffers, m_ScheduleMutex,
                   textureVars>>

\* A call of the public HoldBuffer: the buffer is held as it is, its timestamp
\* records untouched.
HoldBufferCall(pTexture) ==
    /\ pc["app"] = "idle"
    /\ nHeld < MaxSubmits
    /\ HoldBuffer(pTexture)
    /\ lastReturn' = NoReturn
    /\ UNCHANGED <<pc, frame, scheduleVars, timerVars, envVars, lastVars,
                   m_uTotalBuffers, m_ScheduleMutex, textureVars>>

\* The value ReleaseAllBuffers returns: uOldTotalAcquiredBuffers.
ReleaseAllBuffersResult == m_uAcquiredBuffers

\* A call of the public ReleaseAllBuffers.
ReleaseAllBuffersCall ==
    /\ pc["app"] = "idle"
    /\ ReleaseAllBuffers
    /\ ScheduleUntouched
    /\ lastReturn' = [ Returned("ReleaseAllBuffers", FALSE)
                       EXCEPT !.uReturned = ReleaseAllBuffersResult ]
    /\ UNCHANGED <<pc, frame, envVars, lastVars, m_uTotalBuffers, m_ScheduleMutex,
                   textureVars>>

\* A call of the public ReleaseOldestBuffer.
ReleaseOldestBufferCall ==
    /\ pc["wsi"] = "idle"
    /\ ReleaseOldestBuffer
    /\ lastReturn' = [ Returned("ReleaseOldestBuffer", m_pHeldBuffers = <<>>)
                       EXCEPT !.uReturned = ReleaseOldestBufferResult ]
    /\ UNCHANGED <<pc, frame, scheduleVars, timerVars, envVars, lastVars,
                   m_uTotalBuffers, m_ScheduleMutex>>

\* The clock advances.
Tick ==
    /\ nTicks < MaxTicks
    /\ nTicks' = nTicks + 1
    /\ ulNow' = AddU64(ulNow, ClockStep)
    /\ UNCHANGED <<pc, frame, queueVars, scheduleVars, timerVars, vblank,
                   lastVars, m_uTotalBuffers, m_ScheduleMutex, textureVars,
                   lastReturn>>

\* Every call but the peek: the calls that write the limiter, a texture or the
\* timer, in any order and from their contexts.
NextCalls ==
    \/ \E t \in Textures, cpu \in CPUStampInputs, gpu \in GPUStampInputs, b \in BOOLEAN :
           MarkFrame(t, cpu, gpu, b)
    \/ MarkFrameHold
    \/ \E b \in BOOLEAN : ArmNextFrameCall(b)
    \/ \E c \in Contexts : ArmNextFrame(c)
    \/ \E c \in Contexts : ArmNextFrameArmTimer(c)
    \/ \E c \in Contexts : ArmNextFrameRelockBlocks(c)
    \/ \E c \in Contexts : ArmNextFrameRelockThrows(c)
    \/ OnPollInCall
    \/ OnPollIn
    \/ OnPollInRelease
    \/ \E n \in TotalBufferInputs : SetTotalBuffers(n)
    \/ SetTotalBuffersRelease
    \/ ReleaseOldestBufferCall
    \/ \E t \in Textures : HoldBufferCall(t)
    \/ ReleaseAllBuffersCall
    \/ Tick

SpecCalls == Init /\ [][NextCalls]_vars

\* Every call.  A CalcNextWakeupTime call from outside reads the clock and what
\* no action writes, and writes nothing: it adds no state of the program to those
\* of SpecCalls, only returns.
Next ==
    \/ NextCalls
    \/ \E b \in BOOLEAN : CalcNextWakeupTimeCall(b)

Spec == Init /\ [][Next]_vars

(***************************************************************************)
(* The wake-up arithmetic alone: the scheduler as constructed, with the    *)
(* latch time, the two last timestamps and the clock drawn from the input  *)
(* sets, and CalcNextWakeupTime called on it.                              *)
(***************************************************************************)
InitCalc ==
    \E latch \in LatchInputs, gpu \in LastGPUInputs, rel \in LastReleaseInputs,
       now \in NowInputs :
        Constructed(gpu, rel, now,
                    [ulTargetVBlank |-> AddU64(latch, U64(1333334)),
                     ulScheduledWakeupPoint |-> latch])

NextCalc ==
    \/ \E b \in BOOLEAN : CalcNextWakeupTimeCall(b)

SpecCalc == InitCalc /\ [][NextCalc]_vars

(***************************************************************************)
(* The limiter as its owner drives it: MarkFrame with its default           *)
(* bReArmTimer = true and SetTotalBuffers, and the event loop calling       *)
(* OnPollIn once for each deadline registered with the timer.               *)
(***************************************************************************)
TimerFires ==
    /\ bTimerPending
    /\ OnPollInCall

NextPaced ==
    \/ \E t \in Textures, cpu \in CPUStampInputs, gpu \in GPUStampInputs :
           MarkFrame(t, cpu, gpu, TRUE)
    \/ MarkFrameHold
    \/ \E c \in Contexts : ArmNextFrame(c)
    \/ \E c \in Contexts : ArmNextFrameArmTimer(c)
    \/ \E c \in Contexts : ArmNextFrameRelockBlocks(c)
    \/ \E c \in Contexts : ArmNextFrameRelockThrows(c)
    \/ TimerFires
    \/ OnPollIn
    \/ OnPollInRelease
    \/ \E n \in TotalBufferInputs : SetTotalBuffers(n)
    \/ SetTotalBuffersRelease
    \/ Tick

SpecPaced == Init /\ [][NextPaced]_vars

\* The same, with the owner peeking at the schedule between its calls.
NextPeek ==
    \/ NextPaced
    \/ \E b \in BOOLEAN : CalcNextWakeupTimeCall(b)

SpecPeek == Init /\ [][NextPeek]_vars

(***************************************************************************)
(* Properties.                                                             *)
(***************************************************************************)
TimerInFire == pc["timer"] \in {"poll_release", "arm_lock"}

\* C1: m_uAcquiredBuffers equals the number of buffers in the hold queue, in every
\* state (a critical section of m_mutHeldBuffers is one step, so no state lies
\* inside one), the state after construction included.
C1_AcquiredIsQueueLength == m_uAcquiredBuffers = Len(m_pHeldBuffers)

\* C2: buffers leave the queue in the order they entered it.  The held buffers
\* stand in the order of their HoldBuffer calls, each of them was pushed after the
\* buffer ReleaseOldestBuffer released last, and a ReleaseOldestBuffer that releases
\* a buffer releases the one pushed earliest among those held, which was pushed
\* after every buffer released before it.
C2_ReleaseOrderIsFIFO ==
    /\ [](\A i \in 1..Len(m_pHeldBuffers) :
            /\ m_pHeldBuffers[i].seq > lastReleased
            /\ \A j \in 1..Len(m_pHeldBuffers) :
                   i < j => m_pHeldBuffers[i].seq < m_pHeldBuffers[j].seq)
    /\ [][(lastReleased' # lastReleased /\ lastReleased' # 0) =>
              /\ lastReleased' > lastReleased
              /\ m_pHeldBuffers # <<>>
              /\ lastReleased' = m_pHeldBuffers[1].seq
              /\ m_pHeldBuffers' = Tail(m_pHeldBuffers)
              /\ \A i \in 1..Len(m_pHeldBuffers) : m_pHeldBuffers[i].seq >= lastReleased']_vars

\* Two buffers were released one by one, the first pushed and then the second,
\* and the third is still held.
C2_Witness ==
    /\ lastReleased = 2
    /\ Len(m_pHeldBuffers) = 1
    /\ m_pHeldBuffers[1].seq = 3

\* C3: every OnPollIn that finds the limiter armed ends by returning, with one
\* buffer released, m_bArmed set again and exactly one ArmTimer call made since
\* the exchange.  A fire ends when its context returns to the event loop or blocks
\* for good on the mutex it owns.
C3_FireReleasesOneAndRearms ==
    [][(TimerInFire /\ pc'["timer"] \in {"idle", "relock_blocked"}) =>
          /\ pc'["timer"] = "idle"
          /\ frame["timer"].uReleased # 0
          /\ m_bArmed'
          /\ nArmTimer' = frame["timer"].nArmAtFire + 1]_vars

\* C4: the step that completes SetTotalBuffers(n) leaves m_uTotalBuffers = n,
\* m_uAcquiredBuffers = 0 and the hold queue empty, whatever the state before.
C4_SetTotalBuffersResets ==
    [][(pc["wsi"] = "set_release" /\ pc'["wsi"] = "idle") =>
          /\ m_uTotalBuffers' = frame["wsi"].uTotalBuffers
          /\ m_uAcquiredBuffers' = 0
          /\ m_pHeldBuffers' = <<>>]_vars

\* SetTotalBuffers(2) has completed on an armed limiter, emptying the queue under
\* a MarkFrame that has held its buffer and not yet re-armed.
C4_Witness ==
    /\ lastReturn.op = "SetTotalBuffers"
    /\ m_uTotalBuffers = 2
    /\ m_uAcquiredBuffers = 0
    /\ m_pHeldBuffers = <<>>
    /\ nHeld = 0
    /\ m_bArmed
    /\ pc["app"] = "arm_lock"
    /\ frame["app"].pTexture = "texA"

\* C5: ArmNextFrame( true ) that finds m_bArmed set returns with m_bArmed still
\* set and the cached schedule and the timer registration as they were.
C5_PreemptiveArmOfArmedIsNoOp ==
    [][\A c \in Contexts :
          (pc[c] = "arm_lock" /\ pc'[c] # "arm_lock" /\ frame[c].bPreemptive /\ m_bArmed) =>
              /\ m_bArmed'
              /\ UNCHANGED <<m_TimerFDSchedule, timerDeadline, nArmTimer>>]_vars

\* A pre-emptive ArmNextFrame has just returned early: the limiter is armed and
\* the one ArmTimer call is the one that armed it.
C5_Witness ==
    /\ lastReturn.op = "ArmNextFrame"
    /\ lastReturn.early
    /\ m_bArmed
    /\ nArmTimer = 1
    /\ timerDeadline = m_TimerFDSchedule.ulScheduledWakeupPoint

\* C6: OnPollIn that finds m_bArmed clear returns at once: m_bArmed stays clear and
\* the hold queue, m_uAcquiredBuffers, the textures' timestamps, the cached
\* schedule and the timer registration are as they were.
C6_StaleWakeupIsIgnored ==
    [][(pc["timer"] = "poll_lock" /\ pc'["timer"] # "poll_lock" /\ ~m_bArmed) =>
          /\ pc'["timer"] = "idle"
          /\ ~m_bArmed'
          /\ m_ScheduleMutex' = NoOwner
          /\ UNCHANGED <<m_pHeldBuffers, m_uAcquiredBuffers, lastReleased,
                         textureVars, m_TimerFDSchedule, timerDeadline,
                         nArmTimer>>]_vars

\* A stale OnPollIn has just returned with a buffer held: the buffer is still held.
C6_Witness ==
    /\ lastReturn.op = "OnPollIn"
    /\ lastReturn.early
    /\ ~m_bArmed
    /\ Len(m_pHeldBuffers) >= 1
    /\ lastReleased = 0

\* The inputs of the worked example: latch 16,666,666, last completion 5,000,000,
\* last release 3,000,000, and CalcNextWakeupTime has returned.
ExampleCalcReturned ==
    /\ lastReturn.op = "CalcNextWakeupTime"
    /\ vblank.ulScheduledWakeupPoint = U64(16666666)
    /\ m_ulLastGPUTimestamp = U64(5000000)
    /\ m_ulLastRelease = U64(3000000)

\* C7: with the inputs of the worked example and the clock before 14,666,166,
\* CalcNextWakeupTime returns the wake-up point 14,666,666.
C7_CandidateUsedBeforeThreshold ==
    (ExampleCalcReturned /\ GtU64(U64(14666166), lastReturn.now)) =>
        lastReturn.ret.ulScheduledWakeupPoint = U64(14666666)

\* C8: with the inputs of the worked example and the clock at 15,000,000,
\* CalcNextWakeupTime returns the wake-up point 15,000,000, the clock.
C8_PastCandidateFallsBackToNow ==
    (ExampleCalcReturned /\ lastReturn.now = U64(15000000)) =>
        lastReturn.ret.ulScheduledWakeupPoint = U64(15000000)

\* A step of HoldBuffer, called by MarkFrame or from outside.
HoldBufferStep ==
    \/ pc["app"] = "mf_hold" /\ pc'["app"] # "mf_hold"
    \/ pc["app"] = "idle" /\ pc'["app"] = "idle" /\ nHeld' = nHeld + 1

\* C9: HoldBuffer always appends its buffer at the tail and adds one to
\* m_uAcquiredBuffers, and it takes the warning branch exactly when the new count
\* is above m_uTotalBuffers.  After SetTotalBuffers(2), the third of three
\* HoldBuffer calls is the first to warn, and the count is then 3.
C9_HoldBufferNeverRejects ==
    /\ [][HoldBufferStep =>
              LET n == Len(m_pHeldBuffers) IN
              /\ Len(m_pHeldBuffers') = n + 1
              /\ SubSeq(m_pHeldBuffers', 1, n) = m_pHeldBuffers
              /\ m_pHeldBuffers'[n + 1].pTexture \in Textures
              /\ pc["app"] = "mf_hold" =>
                     m_pHeldBuffers'[n + 1].pTexture = frame["app"].pTexture
              /\ m_uAcquiredBuffers' = m_uAcquiredBuffers + 1
              /\ m_pHeldBuffers'[n + 1].warned <=> (m_uAcquiredBuffers' > m_uTotalBuffers')]_vars
    /\ []((/\ pc["wsi"] = "idle"
           /\ m_uTotalBuffers = 2
           /\ Len(m_pHeldBuffers) = 3
           /\ m_pHeldBuffers[1].seq = 1) =>
              /\ m_uAcquiredBuffers = 3
              /\ ~m_pHeldBuffers[1].warned
              /\ ~m_pHeldBuffers[2].warned
              /\ m_pHeldBuffers[3].warned)

\* Three buffers pushed since SetTotalBuffers(2) are held, the third with the warning.
C9_Witness ==
    /\ pc["wsi"] = "idle"
    /\ pc["app"] = "idle"
    /\ m_uTotalBuffers = 2
    /\ Len(m_pHeldBuffers) = 3
    /\ m_pHeldBuffers[1].seq = 1
    /\ m_uAcquiredBuffers = 3
    /\ m_pHeldBuffers[3].warned

\* Two CalcNextWakeupTime calls have returned with no step of any context between
\* them.  The method does not read its argument, so what holds of two calls holds
\* of two calls with the argument true.
TwoPeeksInARow ==
    /\ lastReturn.op = "CalcNextWakeupTime"
    /\ lastReturn.prev.made

\* A CalcNextWakeupTime call writes nothing: not the vblank timer's schedule, not
\* a member of the limiter, not a texture, not the timer.
PeekWritesNothing ==
    [][(lastReturn'.op = "CalcNextWakeupTime" /\ lastReturn' # lastReturn) =>
          UNCHANGED <<vblank, m_bArmed, m_TimerFDSchedule, timerDeadline, nArmTimer,
                      m_pHeldBuffers, m_uAcquiredBuffers, m_uTotalBuffers,
                      m_ulLastGPUTimestamp, m_ulLastRelease, textureVars,
                      m_ScheduleMutex>>]_vars

\* C10 as stated: two CalcNextWakeupTime( true ) calls in a row, with the
\* vblank timer's schedule unchanged, return the same schedule.
C10_TwoPeeksAgree ==
    TwoPeeksInARow => lastReturn.ret = lastReturn.prev.ret

\* C10 as amended: two CalcNextWakeupTime( true ) calls in a row that read the
\* same clock return the same schedule, two in a row always return the same
\* target vblank and target latch, and neither call writes anything.
C10_TwoPeeksAtOneTimeAgree ==
    /\ []((TwoPeeksInARow /\ lastReturn.now = lastReturn.prev.now) =>
              lastReturn.ret = lastReturn.prev.ret)
    /\ [](TwoPeeksInARow =>
              /\ lastReturn.ret.ulTargetVBlank = lastReturn.prev.ret.ulTargetVBlank
              /\ lastReturn.ret.ulTargetLatch = lastReturn.prev.ret.ulTargetLatch)
    /\ PeekWritesNothing

\* Two peeks in a row at one clock reading, on an armed limiter holding a buffer.
C10_Witness ==
    /\ TwoPeeksInARow
    /\ lastReturn.now = lastReturn.prev.now
    /\ m_bArmed
    /\ Len(m_pHeldBuffers) >= 1

\* The candidate release time of a returned CalcNextWakeupTime call, from what the
\* call read: latch + last release - last completion, modulo 2^64.
CandidateReleaseTime ==
    SubU64(AddU64(vblank.ulScheduledWakeupPoint, m_ulLastRelease), m_ulLastGPUTimestamp)

\* now + 500,000 as the call computed it, modulo 2^64.
SloppyNow == AddU64(lastReturn.now, U64(500000))

\* C11: CalcNextWakeupTime returns the clock as wake-up point when the candidate
\* targetLatch - (lastGPU - lastRelease) is above now + 500,000 and the candidate
\* when it is not, and it returns the vblank timer's target vblank and wake-up
\* point as target vblank and target latch.
C11_WakeupIsNowOrCandidate ==
    lastReturn.op = "CalcNextWakeupTime" =>
        /\ lastReturn.ret.ulScheduledWakeupPoint =
               IF GtU64(CandidateReleaseTime, SloppyNow)
               THEN lastReturn.now
               ELSE CandidateReleaseTime
        /\ lastReturn.ret.ulTargetVBlank = vblank.ulTargetVBlank
        /\ lastReturn.ret.ulTargetLatch = vblank.ulScheduledWakeupPoint

\* The call returned the clock, 14,000,000, on the inputs of the worked example,
\* where the candidate is 14,666,666.
C11_Witness ==
    /\ ExampleCalcReturned
    /\ lastReturn.now = U64(14000000)
    /\ CandidateReleaseTime = U64(14666666)
    /\ lastReturn.ret.ulScheduledWakeupPoint = U64(14000000)
    /\ lastReturn.ret.ulTargetLatch = U64(16666666)

\* MarkFrame is at the step that ends it, and the frame it was called with.
MarkFrameIn(label) == pc["app"] = label /\ frame["app"].pTexture # NoTexture

\* The buffer MarkFrame pushed is the last of the queue.  Only the context that
\* calls MarkFrame pushes, so until MarkFrame returns its push is the latest since
\* the queue was last cleared.
PushedBufferAtTail(q, n) == q # <<>> /\ n >= 1 /\ q[Len(q)].seq = n

\* What C12 says of each step of MarkFrame but for the place of the buffer at the
\* return: HoldBuffer puts the buffer at the tail; with bReArmTimer the call goes
\* through ArmNextFrame( false ), which sets m_bArmed and caches a schedule computed
\* then whatever m_bArmed was, and registers the cached wake-up point with the
\* timer; without bReArmTimer no step of the call writes m_bArmed, the cached
\* schedule or the timer.
MarkFrameStepsArmOrLeave ==
    /\ [][(MarkFrameIn("mf_hold") /\ pc'["app"] # "mf_hold") =>
              /\ PushedBufferAtTail(m_pHeldBuffers', nHeld')
              /\ m_pHeldBuffers'[Len(m_pHeldBuffers')].pTexture = frame["app"].pTexture
              /\ SubSeq(m_pHeldBuffers', 1, Len(m_pHeldBuffers)) = m_pHeldBuffers
              /\ UNCHANGED <<m_bArmed, m_TimerFDSchedule, timerVars>>
              /\ pc'["app"] = IF frame["app"].bReArmTimer THEN "arm_lock" ELSE "idle"]_vars
    /\ [][(pc["app"] = "idle" /\ pc'["app"] = "mf_hold") =>
              UNCHANGED <<m_bArmed, m_TimerFDSchedule, timerVars>>]_vars
    /\ [][(MarkFrameIn("arm_lock") /\ pc'["app"] # "arm_lock") =>
              /\ pc'["app"] = "arm_timer"
              /\ m_bArmed'
              /\ m_TimerFDSchedule' = CalcNextWakeupTime(FALSE)]_vars
    /\ [][(MarkFrameIn("arm_timer") /\ pc'["app"] # "arm_timer") =>
              /\ pc'["app"] = "idle"
              /\ m_bArmed'
              /\ m_TimerFDSchedule' = m_TimerFDSchedule
              /\ nArmTimer' = nArmTimer + 1
              /\ bTimerPending'
              /\ timerDeadline' = m_TimerFDSchedule'.ulScheduledWakeupPoint]_vars

\* C12 as stated: besides the above, when MarkFrame with bReArmTimer returns, the
\* buffer it pushed is at the tail of the queue.
C12_RearmReturnsWithBufferAtTail ==
    /\ MarkFrameStepsArmOrLeave
    /\ [][(MarkFrameIn("arm_timer") /\ pc'["app"] = "idle") =>
              PushedBufferAtTail(m_pHeldBuffers', nHeld')]_vars

\* C12 as amended: when MarkFrame with bReArmTimer returns, the buffer it pushed is
\* at the tail of the queue unless ReleaseOldestBuffer released it or
\* ReleaseAllBuffers cleared the queue since HoldBuffer pushed it.
C12_RearmReturnsArmed ==
    /\ MarkFrameStepsArmOrLeave
    /\ [][(MarkFrameIn("arm_timer") /\ pc'["app"] = "idle") =>
              \/ PushedBufferAtTail(m_pHeldBuffers', nHeld')
              \/ nHeld' = 0
              \/ lastReleased' = nHeld']_vars

\* MarkFrame with bReArmTimer has returned on a limiter that was armed when it came
\* to line 109: the flag is set, its buffer is at the tail, and the timer holds the
\* wake-up point of the cached schedule from its second ArmTimer call.
C12_Witness ==
    /\ lastReturn.op = "MarkFrame"
    /\ lastReturn.bWasArmed
    /\ m_bArmed
    /\ nArmTimer = 2
    /\ bTimerPending
    /\ timerDeadline = m_TimerFDSchedule.ulScheduledWakeupPoint
    /\ PushedBufferAtTail(m_pHeldBuffers, nHeld)

\* The release time the latest ReleaseOldestBuffer recorded: the clock does not go
\* back, so it is the greatest release time any texture holds.
MostRecentReleaseTime ==
    LET times == {m_BufferTimestamp[t].ulReleaseTime : t \in Textures}
    IN  CHOOSE r \in times : \A o \in times : LeU64(o, r)

\* C13: when MarkFrame, called with a completion time for a buffer whose release
\* time was set, has held the buffer and is about to re-arm, the last completion
\* time CalcNextWakeupTime reads is that completion time and the last release time
\* it reads is the one the latest release recorded.
C13_ScheduleReadsCommittedTimestamps ==
    (MarkFrameIn("arm_lock") /\ frame["app"].ulDelta # ZeroU64) =>
        /\ m_ulLastGPUTimestamp = m_oBufferTimestamp[frame["app"].pTexture].ulGPUTime
        /\ m_ulLastRelease = MostRecentReleaseTime

ReleaseTime(ts, t) == ts[t].ulReleaseTime

\* MarkFrame's step under the texture's mutex, lines 46-61.
MarkFrameWriteStep == pc["app"] = "idle" /\ pc'["app"] = "mf_hold"

\* C14: no step lowers a release time a texture holds, in the record
\* ReleaseOldestBuffer assigns or in the record MarkFrame writes.  The only step
\* that changes the first record is a ReleaseOldestBuffer that releases the
\* texture from the front of the queue, and it sets the release time to the clock
\* and nothing else.  The only step that changes the second is MarkFrame's, which
\* stores the two times it was called with and, as the release time, the one the
\* latest release recorded, which it leaves as it was.
C14_ReleaseTimeNeverDecreases ==
    /\ [][\A t \in Textures :
              /\ LeU64(ReleaseTime(m_BufferTimestamp, t), ReleaseTime(m_BufferTimestamp', t))
              /\ LeU64(ReleaseTime(m_oBufferTimestamp, t),
                       ReleaseTime(m_oBufferTimestamp', t))]_vars
    /\ [][\A t \in Textures :
              m_BufferTimestamp'[t] # m_BufferTimestamp[t] =>
                  /\ m_pHeldBuffers # <<>>
                  /\ m_pHeldBuffers[1].pTexture = t
                  /\ m_pHeldBuffers' = Tail(m_pHeldBuffers)
                  /\ m_BufferTimestamp'[t] =
                         [m_BufferTimestamp[t] EXCEPT !.ulReleaseTime = ulNow]]_vars
    /\ [][MarkFrameWriteStep =>
              LET t == frame'["app"].pTexture IN
              /\ m_BufferTimestamp' = m_BufferTimestamp
              /\ \E cpu \in CPUStampInputs, gpu \in GPUStampInputs :
                     m_oBufferTimestamp' =
                         [m_oBufferTimestamp EXCEPT
                             ![t] = [ ulCPUTime     |-> cpu,
                                      ulGPUTime     |-> gpu,
                                      ulReleaseTime |-> ReleaseTime(m_BufferTimestamp, t) ]]]_vars
    /\ [][m_oBufferTimestamp' # m_oBufferTimestamp => MarkFrameWriteStep]_vars

\* MarkFrame has written the record of a texture released once before, carrying
\* that release time, and OnPollIn, in the timer's context, has released the same
\* texture again after the clock advanced.
C14_Witness ==
    /\ MarkFrameIn("mf_hold")
    /\ frame["app"].ulDelta # ZeroU64
    /\ pc["timer"] = "arm_lock"
    /\ frame["timer"].uReleased # 0
    /\ ReleaseTime(m_BufferTimestamp, frame["app"].pTexture) = AddU64(ClockStart, ClockStep)
    /\ ReleaseTime(m_oBufferTimestamp, frame["app"].pTexture) = ClockStart
    /\ m_oBufferTimestamp[frame["app"].pTexture].ulGPUTime # ZeroU64

\* The contexts inside a section of code that m_ScheduleMutex covers: ArmNextFrame
\* past its lock, OnPollIn past its lock.
InScheduleSection ==
    {c \in Contexts : pc[c] \in {"arm_timer", "poll_release", "relock_blocked"}
                          \/ (pc[c] = "arm_lock" /\ c = "timer")}

\* C15: at most one context is inside a section m_ScheduleMutex covers, and it owns
\* the mutex, so no re-arm runs between the lines of another or of OnPollIn; and
\* whenever the mutex is free and ArmTimer has been called, the deadline the timer
\* was given is the wake-up point of the cached schedule.
C15_ArmSequenceIsAtomic ==
    /\ \A c \in InScheduleSection : m_ScheduleMutex = c
    /\ (m_ScheduleMutex = NoOwner /\ nArmTimer >= 1) =>
           timerDeadline = m_TimerFDSchedule.ulScheduledWakeupPoint

\* A second re-arm has completed, with a schedule unlike the first (the clock has
\* advanced), while a wake-up delivered by the timer waits for the mutex.
C15_Witness ==
    /\ m_ScheduleMutex = NoOwner
    /\ nArmTimer = 2
    /\ m_bArmed
    /\ m_TimerFDSchedule.ulScheduledWakeupPoint = U64(16666666)
    /\ timerDeadline = U64(16666666)
    /\ pc["timer"] = "poll_lock"
    /\ lastReturn.op = "MarkFrame"

\* C16: no context is about to lock, or is blocked on, a mutex it owns itself.
\* A context blocked on its own mutex never returns from its call.
C16_NoContextWaitsForItsOwnMutex ==
    \A c \in Contexts :
        /\ ~(pc[c] = "arm_lock" /\ m_ScheduleMutex = c)
        /\ pc[c] # "relock_blocked"

\* No call is running, or the only one that is will never go on.
AtRest ==
    /\ pc["app"] = "idle"
    /\ pc["wsi"] = "idle"
    /\ pc["timer"] \in {"idle", "relock_blocked"}

\* C17: the limiter never comes to rest holding a buffer with m_bArmed clear and no
\* wake-up pending.  From such a state nothing releases the buffer unless another
\* call comes from outside, so the buffer is not released eventually.
C17_NoBufferIsStranded ==
    ~(AtRest /\ m_pHeldBuffers # <<>> /\ ~m_bArmed /\ ~bTimerPending)

\* C18: once ArmTimer has been called, wherever m_ScheduleMutex is free, or its
\* owner is blocked for good, m_bArmed is set and a wake-up is registered with the
\* timer or delivered and waiting for the mutex.
C18_RestsArmed ==
    (nArmTimer >= 1 /\ (m_ScheduleMutex = NoOwner \/ pc["timer"] = "relock_blocked")) =>
        /\ m_bArmed
        /\ bTimerPending \/ pc["timer"] = "poll_lock"

\* A CalcNextWakeupTime call has returned and the clock it read is below
\* 2^64 - 500,000: now + 500,000 did not wrap.
CalcReturnedNoWrapOfNow ==
    /\ lastReturn.op = "CalcNextWakeupTime"
    /\ LeU64(lastReturn.now, SloppyNow)

\* The subtraction targetLatch - (lastGPU - lastRelease) wrapped to a value in the
\* upper half of the range.
HugeWrappedCandidate ==
    /\ GtU64(SubU64(m_ulLastGPUTimestamp, m_ulLastRelease), vblank.ulScheduledWakeupPoint)
    /\ CandidateReleaseTime[4] >= Base \div 2

\* C19 as stated: with now + 500,000 below 2^64 the wake-up point returned is
\* at most now + 500,000, and with a wrapped, huge candidate it is the clock.
C19_WrappedCandidateYieldsNow ==
    CalcReturnedNoWrapOfNow =>
        /\ LeU64(lastReturn.ret.ulScheduledWakeupPoint, SloppyNow)
        /\ HugeWrappedCandidate => lastReturn.ret.ulScheduledWakeupPoint = lastReturn.now

\* C19 as amended: with now + 500,000 below 2^64 the wake-up point returned is
\* at most now + 500,000; a wrapped, huge candidate yields the clock where it is
\* above now + 500,000 and is returned itself where it is not.
C19_WakeupAtMostSloppyNow ==
    CalcReturnedNoWrapOfNow =>
        /\ LeU64(lastReturn.ret.ulScheduledWakeupPoint, SloppyNow)
        /\ HugeWrappedCandidate =>
               lastReturn.ret.ulScheduledWakeupPoint =
                   IF GtU64(CandidateReleaseTime, SloppyNow)
                   THEN lastReturn.now
                   ELSE CandidateReleaseTime

\* The latch 1,000,000 less the latency 2,000,000 wrapped to 2^64 - 1,000,000, and
\* the call, at 14,000,000, returned the clock.
C19_Witness ==
    /\ CalcReturnedNoWrapOfNow
    /\ HugeWrappedCandidate
    /\ CandidateReleaseTime = U64Top(999999)
    /\ lastReturn.now = U64(14000000)
    /\ lastReturn.ret.ulScheduledWakeupPoint = U64(14000000)

\* A step of SetTotalBuffers, its store or its ReleaseAllBuffers, or a
\* ReleaseAllBuffers called from outside.
SetTotalBuffersStep ==
    \/ pc["wsi"] = "idle" /\ pc'["wsi"] = "set_release"
    \/ pc["wsi"] = "set_release" /\ pc'["wsi"] = "idle"
    \/ pc' = pc /\ nTicks' = nTicks /\ lastReturn'.op = "ReleaseAllBuffers"

\* C20: the steps of SetTotalBuffers and of ReleaseAllBuffers write m_uTotalBuffers,
\* the hold queue and m_uAcquiredBuffers and leave m_bArmed, the cached schedule, the timer's deadline
\* and its pending wake-up, the mutex and the textures' records as they were; and
\* an OnPollIn that found m_bArmed set releases nothing from an empty queue and
\* otherwise the front buffer, which is the earliest pushed since the queue was
\* last cleared that has not been released.
C20_ReconfigurationLeavesSchedule ==
    /\ [][SetTotalBuffersStep =>
              UNCHANGED <<m_bArmed, m_TimerFDSchedule, timerDeadline, nArmTimer,
                          bTimerPending, m_ScheduleMutex, textureVars,
                          m_ulLastGPUTimestamp, m_ulLastRelease>>]_vars
    /\ [][(pc["timer"] = "poll_release" /\ pc'["timer"] # "poll_release") =>
              IF m_pHeldBuffers = <<>>
              THEN /\ m_pHeldBuffers' = <<>>
                   /\ frame'["timer"].uReleased = 0
                   /\ lastReleased' = lastReleased
              ELSE /\ m_pHeldBuffers' = Tail(m_pHeldBuffers)
                   /\ m_pHeldBuffers[1].seq = lastReleased + 1
                   /\ lastReleased' = lastReleased + 1]_vars

\* SetTotalBuffers(2) has just returned on a limiter armed before it, with the
\* wake-up registered then still pending.
C20_Witness ==
    /\ lastReturn.op = "SetTotalBuffers"
    /\ m_uTotalBuffers = 2
    /\ m_pHeldBuffers = <<>>
    /\ m_bArmed
    /\ bTimerPending
    /\ nArmTimer = 1
    /\ timerDeadline = m_TimerFDSchedule.ulScheduledWakeupPoint
    /\ pc["app"] = "idle"
    /\ pc["timer"] = "idle"

====
